---- MODULE Spec2Model ----
(***************************************************************************)
(* Model of the litter-maps scripts: image_extractor.py (row selection,    *)
(* geocoding, threaded street-view download, pixel flattening).            *)
(*                                                                         *)
(* The file system (image_downloads/, data/pixel_data, the coordinates    *)
(* csv) and the input table are state; one run of the script is a walk of  *)
(* the driver's pc from "get_data" to "done" (or "crashed" when an         *)
(* exception escapes); the script can be run again on the same files.      *)
(***************************************************************************)
EXTENDS Integers, Sequences, FiniteSets, TLC

\* ---------------------------------------------------------------- bounds
MaxRows == 2        \* rows in data/Litter_Index_Blocks.csv
N_JOBS == 2         \* os.cpu_count() * 2 worker threads
MaxRuns == 2        \* successive runs of the script on the same files
MaxJobs == 3        \* rows handed to the dispatcher section on its own

\* ------------------------------------------------------ program constants
TRUNCATE == 1       \* data.iloc[:1]
HEADINGS == 4       \* range(0, 360, 90); reshape(4, ...)
IMAGE_PIXELS == 640 * 640          \* 'size': '640x640'
ROW_LEN == 640 * 640 * 3 + 1       \* reshape(4, 640 * 640 * 3 + 1)

Workers == 1..N_JOBS

\* --------------------------------------------------------- text helpers
Digits == <<"0", "1", "2", "3", "4", "5", "6", "7", "8", "9">>

\* str.isdecimal() of one token (a sequence of characters)
isdecimal(tok) ==
    /\ Len(tok) > 0
    /\ \A k \in 1..Len(tok) : \E d \in 1..10 : Digits[d] = tok[k]

\* str(n) for n >= 0: the decimal digits of n
RECURSIVE str(_)
str(n) ==
    IF n < 10 THEN <<Digits[n + 1]>>
    ELSE str(n \div 10) \o <<Digits[(n % 10) + 1]>>

\* int(s): the number s spells, or -1 where int() raises ValueError
RECURSIVE int(_)
int(s) ==
    IF ~isdecimal(s) THEN -1
    ELSE LET d == CHOOSE k \in 1..10 : Digits[k] = s[Len(s)]
         IN  IF Len(s) = 1 THEN d - 1
             ELSE 10 * int(SubSeq(s, 1, Len(s) - 1)) + (d - 1)

\* ------------------------------------------------------- the input table
\* LR_HUNDRED_BLOCK is a sequence of space-separated tokens, each a
\* sequence of characters.
AddrX == << <<"1", "0", "0">>, <<"M">> >>
AddrY == << <<"2", "0", "0">>, <<"P">> >>
AddrZ == << <<"1", "0", "A">>, <<"M">> >>     \* leading token not decimal

RowKinds ==
    { [LR_HUNDRED_BLOCK |-> AddrX, STREET_CLASS_NAME |-> "Local",    SCORE_COLOR |-> "MAROON"],
      [LR_HUNDRED_BLOCK |-> AddrY, STREET_CLASS_NAME |-> "Local",    SCORE_COLOR |-> "MAROON"],
      [LR_HUNDRED_BLOCK |-> AddrX, STREET_CLASS_NAME |-> "Arterial", SCORE_COLOR |-> "MAROON"],
      [LR_HUNDRED_BLOCK |-> AddrY, STREET_CLASS_NAME |-> "Local",    SCORE_COLOR |-> "GREY"],
      [LR_HUNDRED_BLOCK |-> AddrZ, STREET_CLASS_NAME |-> "Local",    SCORE_COLOR |-> "MAROON"] }

\* row k of a table carries OBJECTID k and HUNDRED_BLOCK_SCORE 10 + k
MakeRow(k, kind) ==
    [OBJECTID |-> k,
     LR_HUNDRED_BLOCK |-> kind.LR_HUNDRED_BLOCK,
     STREET_CLASS_NAME |-> kind.STREET_CLASS_NAME,
     SCORE_COLOR |-> kind.SCORE_COLOR,
     HUNDRED_BLOCK_SCORE |-> 10 + k]

Tables ==
    UNION { { [k \in 1..n |-> MakeRow(k, kinds[k])] : kinds \in [1..n -> RowKinds] }
            : n \in 0..MaxRows }

FolderNames == { str(k) : k \in 1..MaxRows }

\* ------------------------------------------------------------- get_data
\* data[data['LR_HUNDRED_BLOCK'].str.split(' ', expand=True)[0].str.isdecimal()]
numeric_blocks(rows) ==
    SelectSeq(rows, LAMBDA r : isdecimal(r.LR_HUNDRED_BLOCK[1]))

\* data[data[column].isin(allowed)]
isin_class(rows, street_class_names) ==
    SelectSeq(rows, LAMBDA r : r.STREET_CLASS_NAME \in street_class_names)

isin_color(rows, score_colors) ==
    SelectSeq(rows, LAMBDA r : r.SCORE_COLOR \in score_colors)

\* data.drop_duplicates('LR_HUNDRED_BLOCK'): the first occurrence is kept
drop_duplicates(rows) ==
    LET F[k \in 0..Len(rows)] ==
            IF k = 0 THEN <<>>
            ELSE IF \E j \in 1..(k - 1) :
                       rows[j].LR_HUNDRED_BLOCK = rows[k].LR_HUNDRED_BLOCK
                 THEN F[k - 1]
                 ELSE Append(F[k - 1], rows[k])
    IN  F[Len(rows)]

\* faulty variant of listed: only the first entry of the listing is looked at
listed_first_only(name, listing) ==
    Len(listing) > 0 /\ listing[1] = name

\* value.isin(os.listdir('image_downloads'))
listed(name, listing) ==
    \E k \in 1..Len(listing) : listing[k] = name

\* data[~data['OBJECTID'].astype(str).isin(os.listdir('image_downloads'))]
not_completed(rows, listing) ==
    SelectSeq(rows, LAMBDA r : ~listed(str(r.OBJECTID), listing))

\* faulty variant of truncate: the truncation is left out
truncate_none(rows) == rows

\* data.iloc[:1]
truncate(rows) ==
    SubSeq(rows, 1, IF Len(rows) < TRUNCATE THEN Len(rows) ELSE TRUNCATE)

\* faulty variant of get_data: completed ids are removed before the duplicates
get_data_completed_first(rows, street_class_names, score_colors, listing) ==
    truncate(drop_duplicates(not_completed(
        isin_color(isin_class(numeric_blocks(rows), street_class_names),
                   score_colors), listing)))

get_data(rows, street_class_names, score_colors, listing) ==
    truncate(not_completed(drop_duplicates(
        isin_color(isin_class(numeric_blocks(rows), street_class_names),
                   score_colors)), listing))

\* data_requirements_kwargs of __main__
street_class_names_arg == {"Local"}
score_colors_arg == {"MAROON"}

\* os.listdir(): the names of a directory in an arbitrary order
Listings(names) ==
    { l \in [1..Cardinality(names) -> names] :
        \A a, b \in 1..Cardinality(names) : a # b => l[a] # l[b] }

\* --------------------------------------------------- files of one folder
\* A file of an image folder: a .jpg of so many pixels, or another file.
Jpg(p) == [jpg |-> TRUE, pixels |-> p]
LinksTxt == [jpg |-> FALSE, pixels |-> 0]

\* what results.download_links / save_links leave behind: one 640x640 .jpg
\* per heading that has imagery, and links.txt
Downloaded(n) == [k \in 1..(n + 1) |-> IF k <= n THEN Jpg(IMAGE_PIXELS) ELSE LinksTxt]

\* folder contents that earlier runs or other programs may have left
FolderContents ==
    { Downloaded(HEADINGS),
      Downloaded(HEADINGS - 1),
      Downloaded(HEADINGS + 1),
      Downloaded(0),
      <<Jpg(4), Jpg(4), Jpg(4), Jpg(4), LinksTxt>>,
      <<Jpg(IMAGE_PIXELS), Jpg(IMAGE_PIXELS), Jpg(IMAGE_PIXELS), Jpg(4)>>,
      <<Jpg(4 * IMAGE_PIXELS + 1), LinksTxt>> }

StrayName == <<"t", "m", "p">>

\* every directory state with the given folder names and contents
Directories(names, contents) ==
    UNION { [present -> contents] : present \in SUBSET names }

\* ------------------------------------------------ extract_pixel_data
\* litter_index[litter_index['OBJECTID'] == int(folder)]
matching_rows(rows, folder) ==
    SelectSeq(rows, LAMBDA r : r.OBJECTID = int(folder))

\* if image.endswith('.jpg')
jpg_files(files) == SelectSeq(files, LAMBDA f : f.jpg)

\* np.append(np.asarray(img), street_score): h * w * 3 values and the score
img_array_len(file) == file.pixels * 3 + 1

\* np.array(data).reshape(4, 640 * 640 * 3 + 1) succeeds: the arrays have
\* one length (a 2-D array) and the element count is that of the new shape
reshape_succeeds(jpgs) ==
    /\ Len(jpgs) > 0
    /\ \A a, b \in 1..Len(jpgs) : img_array_len(jpgs[a]) = img_array_len(jpgs[b])
    /\ Len(jpgs) * img_array_len(jpgs[1]) = HEADINGS * ROW_LEN

\* the rows np.savetxt appends: row r holds elements (r-1)*ROW_LEN+1 ..
\* r*ROW_LEN of the concatenated arrays; a score sits at every multiple of
\* img_array_len
reshaped_rows(folder, jpgs, street_score) ==
    [r \in 1..HEADINGS |->
        [folder |-> folder,
         length |-> ROW_LEN,
         ends_with_score |-> (r * ROW_LEN) % img_array_len(jpgs[1]) = 0,
         street_score |-> street_score]]

\* the exception one iteration of the folder loop raises, or "none"
flatten_error(rows, folder, files) ==
    IF int(folder) = -1 THEN "ValueError_int"
    ELSE IF Len(matching_rows(rows, folder)) = 0 THEN "IndexError_iloc"
    ELSE IF ~reshape_succeeds(jpg_files(files)) THEN "ValueError_reshape"
    ELSE "none"

\* ---------------------------------------------------------------- state
VARIABLES
    table,            \* data/Litter_Index_Blocks.csv
    image_downloads,  \* folder name -> files, the directory image_downloads/
    pixel_data,       \* data/pixel_data, the rows appended so far
    coords_csv,       \* data/Litter_Index_Blocks_With_Coords.csv
    THREAD_QUEUE,     \* the shared job list
    pc,               \* where the driver (__main__) is
    error,            \* the exception that ended the driver, or "none"
    data,             \* the rows get_data returned
    geocode_result,   \* data['geocode_result'], row by row
    i,                \* index of the driver's current loop
    threads,          \* worker -> where the thread is
    kwargs,           \* worker -> the job it popped
    todo,             \* folders the flattener has still to visit
    run,              \* which run of the script this is
    claimed,          \* OBJECTID -> times a worker popped its job (this run)
    executed,         \* OBJECTID -> times extract_image was called (this run)
    enqueue_log,      \* every job appended so far, over all runs
    selections,       \* every get_data call: directory names and result
    writers           \* who has written the output files

vars == <<table, image_downloads, pixel_data, coords_csv, THREAD_QUEUE, pc,
          error, data, geocode_result, i, threads, kwargs, todo, run,
          claimed, executed, enqueue_log, selections, writers>>

JobIds == 1..(IF MaxRows > MaxJobs THEN MaxRows ELSE MaxJobs)
NoJob == [lat |-> 0, lng |-> 0, folder_name |-> 0, street_score |-> 0]

\* the state of a fresh process: module globals and locals
ProcessStart ==
    /\ THREAD_QUEUE = <<>>
    /\ error = "none"
    /\ data = <<>>
    /\ geocode_result = <<>>
    /\ i = 1
    /\ threads = [w \in Workers |-> "unstarted"]
    /\ kwargs = [w \in Workers |-> NoJob]
    /\ todo = {}
    /\ claimed = [k \in JobIds |-> 0]
    /\ executed = [k \in JobIds |-> 0]

\* first run of the script: any input table, an empty image_downloads/, no
\* pixel file yet
Init ==
    /\ table \in Tables
    /\ image_downloads = <<>>
    /\ pixel_data = <<>>
    /\ coords_csv = <<>>
    /\ pc = "get_data"
    /\ run = 1
    /\ enqueue_log = <<>>
    /\ selections = <<>>
    /\ writers = {}
    /\ ProcessStart

Terminated == {"done", "IndexError", "FetchError"}

Crash(e) ==
    /\ pc' = "crashed"
    /\ error' = e

\* ------------------------------------------------------------ get_data
GetData ==
    /\ pc = "get_data"
    /\ \E listing \in Listings(DOMAIN image_downloads) :
        /\ data' = get_data(table, street_class_names_arg, score_colors_arg, listing)
        /\ selections' = Append(selections,
                                [dirs |-> DOMAIN image_downloads, rows |-> data'])
    /\ pc' = "geocode"
    /\ i' = 1
    /\ UNCHANGED <<table, image_downloads, pixel_data, coords_csv, THREAD_QUEUE,
                   error, geocode_result, threads, kwargs, todo, run, claimed,
                   executed, enqueue_log, writers>>

\* ------------------------------------------------ extract_all_geocodes
\* what GMAPS.geocode returns for one address: a list of candidates
Here == [lat |-> 39, lng |-> -75]
There == [lat |-> 40, lng |-> -76]
GeocodeReplies == { <<>>, <<Here>>, <<Here, There>> }

\* extract_geocode on row i: the request raises, or geocode_result[0] raises
\* IndexError on an empty reply, or the first candidate is kept.  (The house
\* number is first shifted by random.randrange(30, 80, 10); int() of the
\* leading token cannot raise after the isdecimal filter, and the shift
\* changes only the address that is queried and printed.)
GeocodeRow ==
    /\ pc = "geocode"
    /\ i <= Len(data)
    /\ \/ /\ Crash("NetworkFailure")
          /\ UNCHANGED <<geocode_result, i>>
       \/ \E reply \in GeocodeReplies :
            IF Len(reply) = 0
            THEN /\ Crash("NotFound")
                 /\ UNCHANGED <<geocode_result, i>>
            ELSE /\ geocode_result' = Append(geocode_result, reply[1])
                 /\ i' = i + 1
                 /\ pc' = IF i = Len(data) THEN "to_csv" ELSE "geocode"
                 /\ error' = error
    /\ UNCHANGED <<table, image_downloads, pixel_data, coords_csv, THREAD_QUEUE,
                   data, threads, kwargs, todo, run, claimed, executed,
                   enqueue_log, selections, writers>>

\* data.apply(..., axis=1) on a frame without rows calls extract_geocode for
\* no row; assigning its result raises ValueError in some pandas versions
GeocodeNoRows ==
    /\ pc = "geocode"
    /\ Len(data) = 0
    /\ \/ Crash("ValueError_setitem")
       \/ pc' = "to_csv" /\ error' = error
    /\ UNCHANGED <<table, image_downloads, pixel_data, coords_csv, THREAD_QUEUE,
                   data, geocode_result, i, threads, kwargs, todo, run, claimed,
                   executed, enqueue_log, selections, writers>>

\* data_and_geocode.to_csv(FINAL_LITTER_INDEX_FILE): the file is overwritten
ToCsv ==
    /\ pc = "to_csv"
    /\ coords_csv' = [k \in 1..Len(data) |->
                        [OBJECTID |-> data[k].OBJECTID,
                         lat |-> geocode_result[k].lat,
                         lng |-> geocode_result[k].lng]]
    /\ writers' = writers \cup {"driver"}
    /\ i' = 1
    /\ pc' = IF Len(data) = 0 THEN "start" ELSE "enqueue"
    /\ UNCHANGED <<table, image_downloads, pixel_data, THREAD_QUEUE, error, data,
                   geocode_result, threads, kwargs, todo, run, claimed, executed,
                   enqueue_log, selections>>

\* -------------------------------------------------------------- __main__
\* one iteration of "for idx, row in data_and_geocode.iterrows()"
Enqueue ==
    /\ pc = "enqueue"
    /\ i <= Len(data)
    /\ THREAD_QUEUE' = Append(THREAD_QUEUE,
                              [lat |-> geocode_result[i].lat,
                               lng |-> geocode_result[i].lng,
                               folder_name |-> data[i].OBJECTID,
                               street_score |-> data[i].HUNDRED_BLOCK_SCORE])
    /\ enqueue_log' = Append(enqueue_log,
                             [run |-> run,
                              OBJECTID |-> data[i].OBJECTID,
                              LR_HUNDRED_BLOCK |-> data[i].LR_HUNDRED_BLOCK,
                              had_folder |-> str(data[i].OBJECTID) \in DOMAIN image_downloads,
                              workers_idle |-> \A w \in Workers : threads[w] = "unstarted"])
    /\ i' = IF i = Len(data) THEN 1 ELSE i + 1
    /\ pc' = IF i = Len(data) THEN "start" ELSE "enqueue"
    /\ UNCHANGED <<table, image_downloads, pixel_data, coords_csv, error, data,
                   geocode_result, threads, kwargs, todo, run, claimed, executed,
                   selections, writers>>

\* one iteration of "for i in range((N_JOBS))": Thread(...).start()
StartThread ==
    /\ pc = "start"
    /\ threads' = [threads EXCEPT ![i] = "check"]
    /\ i' = IF i = N_JOBS THEN 1 ELSE i + 1
    /\ pc' = IF i = N_JOBS THEN "join" ELSE "start"
    /\ UNCHANGED <<table, image_downloads, pixel_data, coords_csv, THREAD_QUEUE,
                   error, data, geocode_result, kwargs, todo, run, claimed,
                   executed, enqueue_log, selections, writers>>

\* faulty variant of join_returns: join does not wait for the thread
join_returns_at_once(w) == TRUE

\* t.join() returns once the thread has ended, normally or by an exception
join_returns(w) == threads[w] \in Terminated

\* one iteration of "for t in image_threads: t.join()"
JoinThread ==
    /\ pc = "join"
    /\ join_returns(i)
    /\ i' = IF i = N_JOBS THEN 1 ELSE i + 1
    /\ pc' = IF i = N_JOBS THEN "flatten" ELSE "join"
    /\ UNCHANGED <<table, image_downloads, pixel_data, coords_csv, THREAD_QUEUE,
                   error, data, geocode_result, threads, kwargs, todo, run,
                   claimed, executed, enqueue_log, selections, writers>>

\* ------------------------------------------------ extract_images_worker
\* while len(THREAD_QUEUE) > 0
WorkerCheck(w) ==
    /\ threads[w] = "check"
    /\ threads' = [threads EXCEPT ![w] = IF Len(THREAD_QUEUE) > 0 THEN "pop" ELSE "done"]
    /\ UNCHANGED <<table, image_downloads, pixel_data, coords_csv, THREAD_QUEUE,
                   pc, error, data, geocode_result, i, kwargs, todo, run,
                   claimed, executed, enqueue_log, selections, writers>>

\* kwargs = THREAD_QUEUE.pop(): the last job, or IndexError on an empty list
WorkerPop(w) ==
    /\ threads[w] = "pop"
    /\ IF Len(THREAD_QUEUE) = 0
       THEN /\ threads' = [threads EXCEPT ![w] = "IndexError"]
            /\ UNCHANGED <<THREAD_QUEUE, kwargs, claimed>>
       ELSE LET job == THREAD_QUEUE[Len(THREAD_QUEUE)]
            IN  /\ kwargs' = [kwargs EXCEPT ![w] = job]
                /\ THREAD_QUEUE' = SubSeq(THREAD_QUEUE, 1, Len(THREAD_QUEUE) - 1)
                /\ claimed' = [claimed EXCEPT ![job.folder_name] = @ + 1]
                /\ threads' = [threads EXCEPT ![w] = "extract_image"]
    /\ UNCHANGED <<table, image_downloads, pixel_data, coords_csv, pc, error,
                   data, geocode_result, i, todo, run, executed, enqueue_log,
                   selections, writers>>

\* extract_image(**kwargs): the street-view request raises and nothing is
\* stored, or image_downloads/<folder_name> receives a .jpg for every heading
\* that has imagery (all of them, or fewer) and links.txt
ExtractImage(w) ==
    /\ threads[w] = "extract_image"
    /\ executed' = [executed EXCEPT ![kwargs[w].folder_name] = @ + 1]
    /\ \/ /\ threads' = [threads EXCEPT ![w] = "FetchError"]
          /\ UNCHANGED image_downloads
       \/ \E n \in {HEADINGS, HEADINGS - 1} :
            /\ image_downloads' =
                 [name \in DOMAIN image_downloads \cup {str(kwargs[w].folder_name)} |->
                    IF name = str(kwargs[w].folder_name) THEN Downloaded(n)
                    ELSE image_downloads[name]]
            /\ threads' = [threads EXCEPT ![w] = "check"]
    /\ UNCHANGED <<table, pixel_data, coords_csv, THREAD_QUEUE, pc, error, data,
                   geocode_result, i, kwargs, todo, run, claimed, enqueue_log,
                   selections, writers>>

\* ------------------------------------------------- extract_pixel_data
\* image_folders = os.listdir("image_downloads")
FlattenStart ==
    /\ pc = "flatten"
    /\ todo' = DOMAIN image_downloads
    /\ pc' = IF DOMAIN image_downloads = {} THEN "done" ELSE "flatten_loop"
    /\ UNCHANGED <<table, image_downloads, pixel_data, coords_csv, THREAD_QUEUE,
                   error, data, geocode_result, i, threads, kwargs, run, claimed,
                   executed, enqueue_log, selections, writers>>

\* one iteration of "for folder in image_folders", in the listing's order
FlattenFolder ==
    /\ pc = "flatten_loop"
    /\ \E folder \in todo :
        LET files == image_downloads[folder]
            err == flatten_error(table, folder, files)
        IN  IF err # "none"
            THEN /\ Crash(err)
                 /\ UNCHANGED <<pixel_data, todo, writers>>
            ELSE /\ pixel_data' = pixel_data \o
                        reshaped_rows(folder, jpg_files(files),
                            matching_rows(table, folder)[1].HUNDRED_BLOCK_SCORE)
                 /\ writers' = writers \cup {"driver"}
                 /\ todo' = todo \ {folder}
                 /\ pc' = IF todo = {folder} THEN "done" ELSE "flatten_loop"
                 /\ error' = error
    /\ UNCHANGED <<table, image_downloads, coords_csv, THREAD_QUEUE, data,
                   geocode_result, i, threads, kwargs, run, claimed, executed,
                   enqueue_log, selections>>

\* the script is started again on the same files: a fresh process
Rerun ==
    /\ pc \in {"done", "crashed"}
    /\ run < MaxRuns
    /\ run' = run + 1
    /\ pc' = "get_data"
    /\ THREAD_QUEUE' = <<>>
    /\ error' = "none"
    /\ data' = <<>>
    /\ geocode_result' = <<>>
    /\ i' = 1
    /\ threads' = [w \in Workers |-> "unstarted"]
    /\ kwargs' = [w \in Workers |-> NoJob]
    /\ todo' = {}
    /\ claimed' = [k \in JobIds |-> 0]
    /\ executed' = [k \in JobIds |-> 0]
    /\ UNCHANGED <<table, image_downloads, pixel_data, coords_csv, enqueue_log,
                   selections, writers>>

Next ==
    \/ GetData
    \/ GeocodeRow
    \/ GeocodeNoRows
    \/ ToCsv
    \/ Enqueue
    \/ StartThread
    \/ JoinThread
    \/ \E w \in Workers : WorkerCheck(w)
    \/ \E w \in Workers : WorkerPop(w)
    \/ \E w \in Workers : ExtractImage(w)
    \/ FlattenStart
    \/ FlattenFolder
    \/ Rerun

Spec == Init /\ [][Next]_vars

\* ----------------------------------------- the dispatcher section alone
\* __main__ from the enqueue loop to the last join, entered with a
\* data_and_geocode of any number of rows
DispatchRows(n) == [k \in 1..n |-> MakeRow(k, CHOOSE kind \in RowKinds : TRUE)]

DispatchInit ==
    /\ \E n \in 0..MaxJobs :
        /\ table = DispatchRows(n)
        /\ data = DispatchRows(n)
        /\ geocode_result = [k \in 1..n |-> Here]
        /\ pc = IF n = 0 THEN "start" ELSE "enqueue"
    /\ image_downloads = <<>>
    /\ pixel_data = <<>>
    /\ coords_csv = <<>>
    /\ run = 1
    /\ enqueue_log = <<>>
    /\ selections = <<>>
    /\ writers = {}
    /\ THREAD_QUEUE = <<>>
    /\ error = "none"
    /\ i = 1
    /\ threads = [w \in Workers |-> "unstarted"]
    /\ kwargs = [w \in Workers |-> NoJob]
    /\ todo = {}
    /\ claimed = [k \in JobIds |-> 0]
    /\ executed = [k \in JobIds |-> 0]

DispatchNext ==
    \/ Enqueue
    \/ StartThread
    \/ JoinThread
    \/ \E w \in Workers : WorkerCheck(w)
    \/ \E w \in Workers : WorkerPop(w)
    \/ \E w \in Workers : ExtractImage(w)

DispatchSpec == DispatchInit /\ [][DispatchNext]_vars

\* -------------------------------------------------- the row selector
\* runs of the script that end in extract_all_geocodes, so that the next
\* run selects on the same table and the same image_downloads/; the folders
\* of any earlier downloads are there, also of ids the table has no more
SelectFolderNames == { str(k) : k \in 1..(MaxRows + 1) }

SelectInit ==
    /\ table \in Tables
    /\ image_downloads \in Directories(SelectFolderNames, {Downloaded(HEADINGS)})
    /\ pixel_data = <<>>
    /\ coords_csv = <<>>
    /\ pc = "get_data"
    /\ run = 1
    /\ enqueue_log = <<>>
    /\ selections = <<>>
    /\ writers = {}
    /\ ProcessStart

SelectNext ==
    \/ GetData
    \/ GeocodeRow
    \/ GeocodeNoRows
    \/ Rerun

SelectSpec == SelectInit /\ [][SelectNext]_vars

\* -------------------------------------------- the pixel flattener alone
\* extract_pixel_data entered with any table and any image_downloads/
FlattenTables ==
    { [k \in 1..n |-> MakeRow(k, CHOOSE kind \in RowKinds : TRUE)] : n \in 0..MaxRows }

FlattenInit ==
    /\ table \in FlattenTables
    /\ image_downloads \in Directories(FolderNames \cup {StrayName}, FolderContents)
    /\ pixel_data = <<>>
    /\ coords_csv = <<>>
    /\ pc = "flatten"
    /\ run = 1
    /\ enqueue_log = <<>>
    /\ selections = <<>>
    /\ writers = {}
    /\ ProcessStart

FlattenNext ==
    \/ FlattenStart
    \/ FlattenFolder

FlattenSpec == FlattenInit /\ [][FlattenNext]_vars

\* ---------------------------------------------------------------- claims
LogIds == { enqueue_log[k].OBJECTID : k \in DOMAIN enqueue_log }
RowsFrom(folder) == { k \in DOMAIN pixel_data : pixel_data[k].folder = folder }

\* C1: once all workers have been joined, every job that was appended to
\* THREAD_QUEUE has been popped by exactly one worker and extract_image has
\* been called for it exactly once.
C1_EveryJobExecutedOnce ==
    pc = "flatten" =>
        \A k \in LogIds : claimed[k] = 1 /\ executed[k] = 1

\* the part of C1 that is about the pop alone: no job is claimed twice and
\* extract_image is called only for a claimed job
NoJobClaimedTwice ==
    \A k \in JobIds : claimed[k] <= 1 /\ executed[k] <= claimed[k]

\* C2: no worker ever executes THREAD_QUEUE.pop() on an empty list.
C2_NoPopOnEmptyList ==
    \A w \in Workers : threads[w] # "IndexError"

\* C3: the driver is past the join of all workers only when every worker has
\* ended by its own emptiness check, and the job list is then empty.
C3_JoinedAfterAllSawEmpty ==
    pc = "flatten" =>
        /\ \A w \in Workers : threads[w] = "done"
        /\ THREAD_QUEUE = <<>>

\* C4: two get_data calls on the same table, with the same allow-sets and
\* the same image_downloads/ content, return the same rows in the same
\* order, whatever the order in which os.listdir lists the folders.
C4_SelectorIdempotent ==
    \A a, b \in DOMAIN selections :
        selections[a].dirs = selections[b].dirs =>
            selections[a].rows = selections[b].rows

\* C4 witness: the second run selected on the same directory of two or more
\* folders as the first, and both returned a row.
C4_Witness ==
    /\ Len(selections) = 2
    /\ selections[1].dirs = selections[2].dirs
    /\ Cardinality(selections[1].dirs) >= 2
    /\ selections[2].rows # <<>>

\* C5: get_data never returns more than TRUNCATE rows; when it returns no
\* row, the run appends no job to THREAD_QUEUE.
C5_SelectorTruncates ==
    /\ Len(data) <= TRUNCATE
    /\ \A r \in DOMAIN selections :
        /\ Len(selections[r].rows) <= TRUNCATE
        /\ selections[r].rows = <<>> =>
             \A k \in DOMAIN enqueue_log : enqueue_log[k].run # r
    /\ (pc # "get_data" /\ data = <<>>) => THREAD_QUEUE = <<>>

\* C5 witness: the first run returned TRUNCATE rows and enqueued them, the
\* second run's selection was empty and it ran to its end without a job.
C5_Witness ==
    /\ run = 2
    /\ pc = "done"
    /\ Len(selections) = 2
    /\ Len(selections[1].rows) = TRUNCATE
    /\ selections[2].rows = <<>>
    /\ Len(enqueue_log) = TRUNCATE

\* C6: every row of the pixel file has length ROW_LEN and ends with the
\* record's score, a folder contributes HEADINGS rows, and a row is written
\* only for a folder that holds exactly HEADINGS images of IMAGE_PIXELS
\* pixels (any other folder raises and writes nothing).
C6_FlattenerValidates ==
    /\ \A k \in DOMAIN pixel_data :
        /\ pixel_data[k].length = ROW_LEN
        /\ pixel_data[k].ends_with_score
        /\ LET jpgs == jpg_files(image_downloads[pixel_data[k].folder])
           IN  /\ Len(jpgs) = HEADINGS
               /\ \A j \in 1..Len(jpgs) : jpgs[j].pixels = IMAGE_PIXELS
    /\ \A folder \in DOMAIN image_downloads :
        Cardinality(RowsFrom(folder)) \in {0, HEADINGS}

\* C7: a geocoding reply without candidates, or a failed geocoding request,
\* never ends the run.
C7_GeocodeFailureIsolated ==
    error \notin {"NotFound", "NetworkFailure"}

\* C8: over all runs, each folder of image_downloads/ contributes one batch
\* of HEADINGS rows to the pixel file at most.
C8_FolderFlattenedOnce ==
    \A folder \in DOMAIN image_downloads :
        Cardinality(RowsFrom(folder)) <= HEADINGS

\* rows of the table that pass the three filters of get_data
Eligible(r) ==
    /\ isdecimal(r.LR_HUNDRED_BLOCK[1])
    /\ r.STREET_CLASS_NAME \in street_class_names_arg
    /\ r.SCORE_COLOR \in score_colors_arg

FirstEligible(k) ==
    /\ Eligible(table[k])
    /\ \A j \in 1..(k - 1) :
         Eligible(table[j]) => table[j].LR_HUNDRED_BLOCK # table[k].LR_HUNDRED_BLOCK

\* C9: get_data returns no row whose folder exists at selection time, and
\* returns a row as long as a first occurrence without a folder is left (the
\* folder filter comes after the duplicate removal and before the
\* truncation); no job is appended for an id whose folder exists, and no
\* address is enqueued under two different ids.
C9_RerunSkipsCompleted ==
    /\ \A r \in DOMAIN selections :
        /\ \A k \in DOMAIN selections[r].rows :
             /\ str(selections[r].rows[k].OBJECTID) \notin selections[r].dirs
             /\ \E j \in DOMAIN table :
                  FirstEligible(j) /\ table[j] = selections[r].rows[k]
        /\ selections[r].rows = <<>> =>
             \A j \in DOMAIN table :
                FirstEligible(j) => str(table[j].OBJECTID) \in selections[r].dirs
    /\ \A k \in DOMAIN enqueue_log : ~enqueue_log[k].had_folder
    /\ \A j, k \in DOMAIN enqueue_log :
        enqueue_log[j].LR_HUNDRED_BLOCK = enqueue_log[k].LR_HUNDRED_BLOCK =>
            enqueue_log[j].OBJECTID = enqueue_log[k].OBJECTID

\* C9 witness: the first run fetched the first occurrence of an address; the
\* second run finds its folder, and selects nothing although a later
\* eligible row with the same address has no folder.
C9_Witness ==
    /\ run = 2
    /\ pc = "done"
    /\ Len(enqueue_log) = 1
    /\ str(enqueue_log[1].OBJECTID) \in selections[2].dirs
    /\ selections[2].rows = <<>>
    /\ \E j \in DOMAIN table :
        /\ Eligible(table[j])
        /\ table[j].OBJECTID # enqueue_log[1].OBJECTID
        /\ table[j].LR_HUNDRED_BLOCK = enqueue_log[1].LR_HUNDRED_BLOCK
        /\ str(table[j].OBJECTID) \notin DOMAIN image_downloads

AllTerminated == \A w \in Workers : threads[w] \in Terminated
NoneStarted == \A w \in Workers : threads[w] = "unstarted"

\* C10: workers run only between the first start and the last join; every
\* job is appended while no worker has started; the flattener runs, and the
\* pixel file is written, only when every worker has ended (by an error
\* too); the output files are written by the driver alone.
C10_StageOrdering ==
    /\ [](/\ (~NoneStarted /\ ~AllTerminated) => pc \in {"start", "join"}
          /\ pc \in {"get_data", "geocode", "to_csv", "enqueue"} => NoneStarted
          /\ pc \in {"flatten", "flatten_loop", "done"} => AllTerminated
          /\ \A k \in DOMAIN enqueue_log : enqueue_log[k].workers_idle
          /\ writers \subseteq {"driver"})
    /\ [][/\ Len(THREAD_QUEUE') > Len(THREAD_QUEUE) => NoneStarted
          /\ pixel_data' # pixel_data => AllTerminated
          /\ coords_csv' # coords_csv => NoneStarted]_vars

\* C10 witness: the flattener has written rows after a run in which a worker
\* ended by an exception.
C10_Witness ==
    /\ pc = "done"
    /\ pixel_data # <<>>
    /\ \E w \in Workers : threads[w] \in {"IndexError", "FetchError"}
    /\ \A k \in DOMAIN enqueue_log : enqueue_log[k].run = run
    /\ enqueue_log # <<>>
====
